---- MODULE Spec2Model ----
(***************************************************************************)
(* State-machine model of recorder.py: the AudioRecorder capture loop     *)
(* (main thread), the KeyboardController polling thread, the              *)
(* ButtonController interrupt callback and main()'s shutdown sequence.    *)
(***************************************************************************)
EXTENDS Integers, Sequences, FiniteSets, TLC

(* ------------------------------ bounds -------------------------------- *)
\* device reads that may succeed in one run
MaxReads == 3
\* reads the 10-second extension window of one save may perform
MaxExt == 2
\* trigger events (button presses and 'r' keys) in one run
MaxTriggers == 2
\* devices in a table handed to find_best_microphone on its own
MaxDevices == 3

(* --------------------------- configurations --------------------------- *)
\* AudioRecorder(buffer_seconds, chunk_size, channels, sample_rate): small
\* stand-ins for the constructor arguments.  For every entry the float
\* expression int(RATE / CHUNK * BUFFER_SECONDS) equals the integer
\* quotient used in Capacity below.
Configs ==
    { [RATE |-> 3, CHUNK |-> 2, BUFFER_SECONDS |-> 0, CHANNELS |-> 1],
      [RATE |-> 5, CHUNK |-> 2, BUFFER_SECONDS |-> 1, CHANNELS |-> 2] }

\* maxsize handed to queue.Queue: int(RATE / CHUNK * BUFFER_SECONDS)
Capacity(c) == (c.RATE * c.BUFFER_SECONDS) \div c.CHUNK

\* queue.Queue.full(): 0 < maxsize <= qsize (maxsize 0 means unbounded)
QueueFull(q, maxsize) == 0 < maxsize /\ maxsize <= Len(q)

\* lines 155-157: evict the oldest chunk when full, then append
Push(q, maxsize, chunk) ==
    Append(IF QueueFull(q, maxsize) THEN Tail(q) ELSE q, chunk)

\* Drain with the chunks taken newest first
RECURSIVE DrainNewestFirst(_, _)
DrainNewestFirst(q, acc) ==
    IF q = <<>> THEN acc
    ELSE DrainNewestFirst(SubSeq(q, 1, Len(q) - 1), Append(acc, q[Len(q)]))

\* lines 168-170: while not empty: frames.append(get())
RECURSIVE Drain(_, _)
Drain(q, acc) == IF q = <<>> THEN acc ELSE Drain(Tail(q), Append(acc, Head(q)))

(* ------------------------------ devices ------------------------------- *)
\* A device name is a sequence of words; str.lower() maps each word.
Lower(w) ==
    CASE w = "USB" -> "usb"
      [] w = "ReSpeaker" -> "respeaker"
      [] w = "Mic" -> "mic"
      [] w = "Array" -> "array"
      [] w = "Microphone" -> "microphone"
      [] w = "HDMI" -> "hdmi"
      [] w = "Output" -> "output"
      [] OTHER -> w

\* kw in w, for lower-case words of the vocabulary
WordContains(w, kw) == w = kw \/ (w = "microphone" /\ kw = "mic")

\* kw in dev_name (no keyword contains a space)
NameContains(name, kw) ==
    \E i \in 1..Len(name) : WordContains(Lower(name[i]), kw)

\* lines 83-91
Priority(name) ==
      (IF NameContains(name, "mic") \/ NameContains(name, "microphone") THEN 3 ELSE 0)
    + (IF NameContains(name, "array") THEN 2 ELSE 0)
    + (IF NameContains(name, "usb") THEN 1 ELSE 0)
    + (IF NameContains(name, "respeaker") THEN 3 ELSE 0)

Dev(name, ch, rate) == [name |-> name, maxInputChannels |-> ch, defaultSampleRate |-> rate]

\* device tables PyAudio may report (index i of the code is position i+1)
DeviceLists ==
    { << Dev(<<"HDMI", "Output">>, 0, 48000) >>,
      << Dev(<<"HDMI", "Output">>, 0, 48000),
         Dev(<<"default">>, 2, 44100),
         Dev(<<"USB", "ReSpeaker", "Mic", "Array">>, 2, 44100),
         Dev(<<"USB", "Microphone">>, 1, 48000) >> }

Min(a, b) == IF a < b THEN a ELSE b

\* key of the sort at line 102, compared as a tuple
KeyLess(d, e) ==
    \/ Priority(d.name) < Priority(e.name)
    \/ Priority(d.name) = Priority(e.name) /\ d.maxInputChannels < e.maxInputChannels

\* Selected with the sort ascending (reverse=True left out)
SelectedAscending(devs) ==
    LET cand == { i \in 1..Len(devs) : devs[i].maxInputChannels > 0 }
        worst == { i \in cand : \A j \in cand : ~KeyLess(devs[j], devs[i]) }
    IN IF cand = {} THEN 0 ELSE CHOOSE i \in worst : \A j \in worst : i <= j

\* lines 72-105: position of best_mics[0] after the stable descending sort,
\* 0 when best_mics is empty
Selected(devs) ==
    LET cand == { i \in 1..Len(devs) : devs[i].maxInputChannels > 0 }
        best == { i \in cand : \A j \in cand : ~KeyLess(devs[i], devs[j]) }
    IN IF cand = {} THEN 0 ELSE CHOOSE i \in best : \A j \in best : i <= j

\* find_best_microphone that never asks for the default input device
find_best_microphoneSkipsDefault(devs, dflt, c) ==
    IF Selected(devs) # 0
    THEN LET s == devs[Selected(devs)]
         IN [index |-> Selected(devs) - 1,
             channels |-> Min(s.maxInputChannels, c.CHANNELS),
             sample_rate |-> s.defaultSampleRate]
    ELSE [index |-> -1, channels |-> c.CHANNELS, sample_rate |-> c.RATE]

\* lines 68-113: (device_index, channels, sample_rate); index -1 is None.
\* dflt is the answer of get_default_input_device_info; dflt.ok is FALSE
\* when the query raises.
find_best_microphone(devs, dflt, c) ==
    IF Selected(devs) # 0
    THEN LET s == devs[Selected(devs)]
         IN [index |-> Selected(devs) - 1,
             channels |-> Min(s.maxInputChannels, c.CHANNELS),
             sample_rate |-> s.defaultSampleRate]
    ELSE IF dflt.ok
         THEN [index |-> dflt.index,
               channels |-> Min(dflt.maxInputChannels, c.CHANNELS),
               sample_rate |-> dflt.defaultSampleRate]
         ELSE [index |-> -1, channels |-> c.CHANNELS, sample_rate |-> c.RATE]

\* answers of get_default_input_device_info
DefaultInfos ==
    { [ok |-> FALSE, index |-> -1, maxInputChannels |-> 0, defaultSampleRate |-> 0],
      [ok |-> TRUE, index |-> 0, maxInputChannels |-> 2, defaultSampleRate |-> 44100] }

\* lines 134-135, 139: the fallback format
FallbackChannels == 1
FallbackRate == 16000

(* ------------------------------- state -------------------------------- *)
VARIABLES
    cfg,              \* constructor arguments of the AudioRecorder
    pc,               \* position of the main thread (main and record_loop)
    kpc,              \* position of the keyboard thread
    audio_buffer,     \* self.audio_buffer, oldest chunk first
    is_recording,     \* recorder.is_recording
    stop_program,     \* recorder.stop_program
    kbd_stop_program, \* keyboard_controller.stop_program
    btn_stop_program, \* button_controller.stop_program
    p,                \* self.p: "None" or "PyAudio"
    stream,           \* self.stream: "None" or "Stream"
    mic,              \* result of find_best_microphone, local to start_recording
    sel,              \* device table and default-device answer it was given
    fmt,              \* (channels, sample_rate) returned by start_recording
    nread,            \* chunks the device has delivered; chunk k is the k-th
    frames,           \* local list of save_recording, <<>> outside it
    ext,              \* reads done in the current extension window
    files,            \* files written, oldest first
    old_settings,     \* keyboard_controller.old_settings
    term,             \* terminal mode: "orig" or "raw"
    gpio,             \* "unset", "registered", "failed" or "released"
    hist              \* history: what was asked of the environment

vars == << cfg, pc, kpc, audio_buffer, is_recording, stop_program,
           kbd_stop_program, btn_stop_program, p, stream, mic, sel, fmt,
           nread, frames, ext, files, old_settings, term, gpio, hist >>

NoMic == [index |-> -1, channels |-> 0, sample_rate |-> 0]
NoFmt == [channels |-> 0, rate |-> 0]
NoSel == [devs |-> <<>>,
          dflt |-> [ok |-> FALSE, index |-> -1, maxInputChannels |-> 0,
                    defaultSampleRate |-> 0]]

\* hist.pushed     chunks pushed since the buffer was last drained
\* hist.atSave     buffer contents when the current save started, then the
\*                 extension chunks in read order
\* hist.readAtSave the chunks read by line 154 since the previous save ended,
\*                 as they stood when the current save started
\* hist.opens      calls of p.open
\* hist.lastOpen   format the latest call of p.open asked for
\* hist.streamFmt  format of the open call that succeeded
\* hist.nTrig      trigger events raised
\* hist.nTrigLoop  trigger events raised while the capture loop was running
\* hist.owed       "loop": a trigger was raised inside the while loop, outside
\*                 save_recording, with quit not requested, and no call of
\*                 save_recording (line 159) has been made since;
\*                 "save": the same for a trigger raised between the call
\*                 of line 159 and the assignment of line 160; else "no"
\* hist.lastSave   "none", "ok" or "failed"
\* hist.stops, hist.closes, hist.terminates   calls of stop_stream, close,
\*                 terminate
Init ==
    /\ cfg \in Configs
    /\ pc = "button_setup"
    /\ kpc = "idle"
    /\ audio_buffer = <<>>
    /\ is_recording = FALSE
    /\ stop_program = FALSE
    /\ kbd_stop_program = FALSE
    /\ btn_stop_program = FALSE
    /\ p = "None"
    /\ stream = "None"
    /\ mic = NoMic
    /\ sel = NoSel
    /\ fmt = NoFmt
    /\ nread = 0
    /\ frames = <<>>
    /\ ext = 0
    /\ files = <<>>
    /\ old_settings = "None"
    /\ term = "orig"
    /\ gpio = "unset"
    /\ hist = [pushed |-> <<>>, atSave |-> <<>>, readAtSave |-> <<>>,
               opens |-> 0,
               lastOpen |-> NoFmt, streamFmt |-> NoFmt, nTrig |-> 0, nTrigLoop |-> 0,
               owed |-> "no", lastSave |-> "none", stops |-> 0, closes |-> 0,
               terminates |-> 0]

\* positions of the main thread inside the while loop of record_loop
LoopPcs == {"loop_test", "read", "check_trigger", "drain", "extend", "write", "clear"}

(* ----------------------- main thread: startup ------------------------- *)
\* ButtonSetup without the try/except of lines 209-215: a GPIO failure
\* reaches main's except clause
ButtonSetupRaises ==
    /\ pc = "button_setup"
    /\ \E ok \in BOOLEAN :
          /\ gpio' = IF ok THEN "registered" ELSE "failed"
          /\ pc' = IF ok THEN "thread_start" ELSE "main_finally"
    /\ UNCHANGED << cfg, kpc, audio_buffer, is_recording, stop_program,
                    kbd_stop_program, btn_stop_program, p, stream, mic, fmt,
                    nread, frames, ext, files, old_settings, term, hist >>
    /\ UNCHANGED sel

\* lines 207-215: GPIO registration; a failure is caught inside setup()
ButtonSetup ==
    /\ pc = "button_setup"
    /\ \E ok \in BOOLEAN : gpio' = IF ok THEN "registered" ELSE "failed"
    /\ pc' = "thread_start"
    /\ UNCHANGED << cfg, kpc, audio_buffer, is_recording, stop_program,
                    kbd_stop_program, btn_stop_program, p, stream, mic, fmt,
                    nread, frames, ext, files, old_settings, term, hist >>
    /\ UNCHANGED sel

\* lines 298-301: keyboard_enabled is True in main
KeyboardThreadStart ==
    /\ pc = "thread_start"
    /\ kpc' = "tcgetattr"
    /\ pc' = "pyaudio"
    /\ UNCHANGED << cfg, audio_buffer, is_recording, stop_program,
                    kbd_stop_program, btn_stop_program, p, stream, mic, fmt,
                    nread, frames, ext, files, old_settings, term, gpio, hist >>
    /\ UNCHANGED sel

\* line 117
PyAudioInit ==
    /\ pc = "pyaudio"
    /\ p' = "PyAudio"
    /\ pc' = "find_mic"
    /\ UNCHANGED << cfg, kpc, audio_buffer, is_recording, stop_program,
                    kbd_stop_program, btn_stop_program, stream, mic, fmt,
                    nread, frames, ext, files, old_settings, term, gpio, hist >>
    /\ UNCHANGED sel

\* line 118, find_best_microphone returning
FindMic ==
    /\ pc = "find_mic"
    /\ \E devs \in DeviceLists, dflt \in DefaultInfos :
          /\ sel' = [devs |-> devs, dflt |-> dflt]
          /\ mic' = find_best_microphone(devs, dflt, cfg)
    /\ pc' = "open"
    /\ UNCHANGED << cfg, kpc, audio_buffer, is_recording, stop_program,
                    kbd_stop_program, btn_stop_program, p, stream, fmt,
                    nread, frames, ext, files, old_settings, term, gpio, hist >>

\* line 118, get_device_count / get_device_info_by_index raising: no handler
\* in start_recording or record_loop, so main's except (line 308) takes it
FindMicError ==
    /\ pc = "find_mic"
    /\ pc' = "main_finally"
    /\ UNCHANGED << cfg, kpc, audio_buffer, is_recording, stop_program,
                    kbd_stop_program, btn_stop_program, p, stream, mic, fmt,
                    nread, frames, ext, files, old_settings, term, gpio, hist >>
    /\ UNCHANGED sel

\* lines 121-130: first open, with the negotiated format
OpenStream ==
    /\ pc = "open"
    /\ LET f == [channels |-> mic.channels, rate |-> mic.sample_rate]
       IN \E ok \in BOOLEAN :
            IF ok
            THEN /\ stream' = "Stream"
                 /\ fmt' = f
                 /\ hist' = [hist EXCEPT !.opens = @ + 1, !.lastOpen = f, !.streamFmt = f]
                 /\ mic' = NoMic
                 /\ sel' = NoSel
                 /\ pc' = "loop_test"
            ELSE /\ hist' = [hist EXCEPT !.opens = @ + 1, !.lastOpen = f]
                 /\ pc' = "fallback"
                 /\ UNCHANGED << stream, fmt, mic, sel >>
    /\ UNCHANGED << cfg, kpc, audio_buffer, is_recording, stop_program,
                    kbd_stop_program, btn_stop_program, p, nread,
                    frames, ext, files, old_settings, term, gpio >>

\* lines 139 and 128 hand back the format the stream was opened with
FallbackReturn == [channels |-> FallbackChannels, rate |-> FallbackRate]

\* OpenFallback trying the fallback format again when it fails
OpenFallbackRetries ==
    /\ pc = "fallback"
    /\ hist.opens < 4
    /\ LET f == [channels |-> FallbackChannels, rate |-> FallbackRate]
       IN \E ok \in BOOLEAN :
            IF ok
            THEN /\ stream' = "Stream"
                 /\ fmt' = FallbackReturn
                 /\ hist' = [hist EXCEPT !.opens = @ + 1, !.lastOpen = f, !.streamFmt = f]
                 /\ mic' = NoMic
                 /\ sel' = NoSel
                 /\ pc' = "loop_test"
            ELSE /\ hist' = [hist EXCEPT !.opens = @ + 1, !.lastOpen = f]
                 /\ pc' = "fallback"
                 /\ UNCHANGED << stream, fmt, mic, sel >>
    /\ UNCHANGED << cfg, kpc, audio_buffer, is_recording, stop_program,
                    kbd_stop_program, btn_stop_program, p, nread,
                    frames, ext, files, old_settings, term, gpio >>

\* lines 131-143: the one retry, with 1 channel at 16000 Hz
OpenFallback ==
    /\ pc = "fallback"
    /\ LET f == [channels |-> FallbackChannels, rate |-> FallbackRate]
       IN \E ok \in BOOLEAN :
            IF ok
            THEN /\ stream' = "Stream"
                 /\ fmt' = FallbackReturn
                 /\ hist' = [hist EXCEPT !.opens = @ + 1, !.lastOpen = f, !.streamFmt = f]
                 /\ pc' = "loop_test"
            ELSE /\ hist' = [hist EXCEPT !.opens = @ + 1, !.lastOpen = f]
                 /\ pc' = "cleanup"
                 /\ UNCHANGED << stream, fmt >>
    /\ mic' = NoMic
    /\ sel' = NoSel
    /\ UNCHANGED << cfg, kpc, audio_buffer, is_recording, stop_program,
                    kbd_stop_program, btn_stop_program, p, nread,
                    frames, ext, files, old_settings, term, gpio >>

\* positions between the call of save_recording (line 159) and the
\* completion of line 160
SavePcs == {"drain", "extend", "write", "clear"}

\* LoopTest that also resets the request flag
LoopTestClearsRequest ==
    /\ pc = "loop_test"
    /\ pc' = IF stop_program THEN "cleanup" ELSE "read"
    /\ is_recording' = FALSE
    /\ UNCHANGED << cfg, kpc, audio_buffer, stop_program,
                    kbd_stop_program, btn_stop_program, p, stream, mic, fmt,
                    nread, frames, ext, files, old_settings, term, gpio, hist >>
    /\ UNCHANGED sel

(* --------------------- main thread: record_loop ----------------------- *)
\* LoopTest without the test of stop_program
LoopTestIgnoresQuit ==
    /\ pc = "loop_test"
    /\ pc' = "read"
    /\ UNCHANGED << cfg, kpc, audio_buffer, is_recording, stop_program,
                    kbd_stop_program, btn_stop_program, p, stream, mic, fmt,
                    nread, frames, ext, files, old_settings, term, gpio, hist >>
    /\ UNCHANGED sel

\* line 153
LoopTest ==
    /\ pc = "loop_test"
    /\ pc' = IF stop_program THEN "cleanup" ELSE "read"
    /\ UNCHANGED << cfg, kpc, audio_buffer, is_recording, stop_program,
                    kbd_stop_program, btn_stop_program, p, stream, mic, fmt,
                    nread, frames, ext, files, old_settings, term, gpio, hist >>
    /\ UNCHANGED sel

\* lines 154-157: one chunk read and pushed
ReadPush ==
    /\ pc = "read"
    /\ nread < MaxReads
    /\ nread' = nread + 1
    /\ audio_buffer' = Push(audio_buffer, Capacity(cfg), nread + 1)
    /\ hist' = [hist EXCEPT !.pushed = Append(@, nread + 1)]
    /\ pc' = "check_trigger"
    /\ UNCHANGED << cfg, kpc, is_recording, stop_program, kbd_stop_program,
                    btn_stop_program, p, stream, mic, fmt, frames, ext,
                    files, old_settings, term, gpio >>
    /\ UNCHANGED sel

\* line 154 raising: lines 161-164
ReadError ==
    /\ pc = "read"
    /\ pc' = "cleanup"
    /\ UNCHANGED << cfg, kpc, audio_buffer, is_recording, stop_program,
                    kbd_stop_program, btn_stop_program, p, stream, mic, fmt,
                    nread, frames, ext, files, old_settings, term, gpio, hist >>
    /\ UNCHANGED sel

\* lines 158-159: the test of the flag and, if set, the call of
\* save_recording
CheckTrigger ==
    /\ pc = "check_trigger"
    /\ pc' = IF is_recording THEN "drain" ELSE "loop_test"
    /\ hist' = [hist EXCEPT !.owed = IF is_recording THEN "no" ELSE @]
    /\ UNCHANGED << cfg, kpc, audio_buffer, is_recording, stop_program,
                    kbd_stop_program, btn_stop_program, p, stream, mic, fmt,
                    nread, frames, ext, files, old_settings, term, gpio >>
    /\ UNCHANGED sel

\* lines 168-173: the buffer is emptied into frames
DrainBuffer ==
    /\ pc = "drain"
    /\ frames' = Drain(audio_buffer, <<>>)
    /\ audio_buffer' = <<>>
    /\ ext' = 0
    /\ hist' = [hist EXCEPT !.pushed = <<>>, !.atSave = audio_buffer,
                            !.readAtSave = hist.pushed]
    /\ pc' = "extend"
    /\ UNCHANGED << cfg, kpc, is_recording, stop_program, kbd_stop_program,
                    btn_stop_program, p, stream, mic, fmt, nread, files,
                    old_settings, term, gpio >>
    /\ UNCHANGED sel

\* ExtensionRead that also feeds the chunk to the rolling buffer
ExtensionReadFeedsBuffer ==
    /\ pc = "extend"
    /\ ext < MaxExt
    /\ nread < MaxReads
    /\ nread' = nread + 1
    /\ frames' = Append(frames, nread + 1)
    /\ audio_buffer' = Push(audio_buffer, Capacity(cfg), nread + 1)
    /\ ext' = ext + 1
    /\ hist' = [hist EXCEPT !.atSave = Append(@, nread + 1)]
    /\ UNCHANGED << cfg, pc, kpc, is_recording, stop_program,
                    kbd_stop_program, btn_stop_program, p, stream, mic, fmt,
                    files, old_settings, term, gpio >>
    /\ UNCHANGED sel

\* lines 174-176: one read of the extension window
ExtensionRead ==
    /\ pc = "extend"
    /\ ext < MaxExt
    /\ nread < MaxReads
    /\ nread' = nread + 1
    /\ frames' = Append(frames, nread + 1)
    /\ ext' = ext + 1
    /\ hist' = [hist EXCEPT !.atSave = Append(@, nread + 1)]
    /\ UNCHANGED << cfg, pc, kpc, audio_buffer, is_recording, stop_program,
                    kbd_stop_program, btn_stop_program, p, stream, mic, fmt,
                    files, old_settings, term, gpio >>
    /\ UNCHANGED sel

\* line 175 raising: propagates through line 159 to lines 161-164
ExtensionReadError ==
    /\ pc = "extend"
    /\ frames' = <<>>
    /\ ext' = 0
    /\ hist' = [hist EXCEPT !.atSave = <<>>, !.readAtSave = <<>>]
    /\ pc' = "cleanup"
    /\ UNCHANGED << cfg, kpc, audio_buffer, is_recording, stop_program,
                    kbd_stop_program, btn_stop_program, p, stream, mic, fmt,
                    nread, files, old_settings, term, gpio >>
    /\ UNCHANGED sel

\* line 174: the ten seconds are over
ExtensionDone ==
    /\ pc = "extend"
    /\ pc' = "write"
    /\ UNCHANGED << cfg, kpc, audio_buffer, is_recording, stop_program,
                    kbd_stop_program, btn_stop_program, p, stream, mic, fmt,
                    nread, frames, ext, files, old_settings, term, gpio, hist >>
    /\ UNCHANGED sel

\* lines 178-192: directory, file name, header and frames
WriteFile ==
    /\ pc = "write"
    /\ files' = Append(files, [frames |-> frames, channels |-> fmt.channels,
                               rate |-> fmt.rate, expect |-> hist.atSave,
                               read |-> hist.readAtSave,
                               nbuf |-> Len(frames) - ext,
                               opened |-> hist.streamFmt])
    /\ hist' = [hist EXCEPT !.lastSave = "ok", !.atSave = <<>>,
                            !.readAtSave = <<>>]
    /\ frames' = <<>>
    /\ ext' = 0
    /\ pc' = "clear"
    /\ UNCHANGED << cfg, kpc, audio_buffer, is_recording, stop_program,
                    kbd_stop_program, btn_stop_program, p, stream, mic, fmt,
                    nread, old_settings, term, gpio >>
    /\ UNCHANGED sel

\* os.makedirs (line 180) or wave.open / writeframes (lines 186-191)
\* raising: propagates through line 159, skipping line 160
WriteError ==
    /\ pc = "write"
    /\ hist' = [hist EXCEPT !.lastSave = "failed", !.atSave = <<>>,
                            !.readAtSave = <<>>]
    /\ frames' = <<>>
    /\ ext' = 0
    /\ pc' = "cleanup"
    /\ UNCHANGED << cfg, kpc, audio_buffer, is_recording, stop_program,
                    kbd_stop_program, btn_stop_program, p, stream, mic, fmt,
                    nread, files, old_settings, term, gpio >>
    /\ UNCHANGED sel

\* ClearRequest with the assignment of line 160 left out
ClearRequestKeepsFlag ==
    /\ pc = "clear"
    /\ pc' = "loop_test"
    /\ UNCHANGED << cfg, kpc, audio_buffer, is_recording, stop_program,
                    kbd_stop_program, btn_stop_program, p, stream, mic, fmt,
                    nread, frames, ext, files, old_settings, term, gpio, hist >>
    /\ UNCHANGED sel

\* line 160
ClearRequest ==
    /\ pc = "clear"
    /\ is_recording' = FALSE
    /\ pc' = "loop_test"
    /\ UNCHANGED << cfg, kpc, audio_buffer, stop_program, kbd_stop_program,
                    btn_stop_program, p, stream, mic, fmt, nread, frames,
                    ext, files, old_settings, term, gpio, hist >>
    /\ UNCHANGED sel

\* cleanup that also puts the quit flag back to False
cleanupResetsQuit ==
    /\ pc = "cleanup"
    /\ hist' = [hist EXCEPT
                  !.stops = IF stream # "None" THEN @ + 1 ELSE @,
                  !.closes = IF stream # "None" THEN @ + 1 ELSE @,
                  !.terminates = IF p # "None" THEN @ + 1 ELSE @]
    /\ stop_program' = FALSE
    /\ pc' = "main_finally"
    /\ UNCHANGED << cfg, kpc, audio_buffer, is_recording,
                    kbd_stop_program, btn_stop_program, p, stream, mic, fmt,
                    nread, frames, ext, files, old_settings, term, gpio >>
    /\ UNCHANGED sel

\* lines 194-200, called from line 142 and from line 164; either way the
\* next statement of the main thread is main's finally clause
cleanup ==
    /\ pc = "cleanup"
    /\ hist' = [hist EXCEPT
                  !.stops = IF stream # "None" THEN @ + 1 ELSE @,
                  !.closes = IF stream # "None" THEN @ + 1 ELSE @,
                  !.terminates = IF p # "None" THEN @ + 1 ELSE @]
    /\ pc' = "main_finally"
    /\ UNCHANGED << cfg, kpc, audio_buffer, is_recording, stop_program,
                    kbd_stop_program, btn_stop_program, p, stream, mic, fmt,
                    nread, frames, ext, files, old_settings, term, gpio >>
    /\ UNCHANGED sel

(* ---------------------- main thread: shutdown ------------------------- *)
\* KeyboardController.cleanup (lines 282-284)
Restore(saved, mode) == IF saved # "None" THEN saved ELSE mode

\* lines 310-312: ButtonController.cleanup (lines 226-230, GPIO.cleanup
\* with its errors swallowed), then KeyboardController.cleanup
MainFinally ==
    /\ pc = "main_finally"
    /\ gpio' = IF gpio = "registered" THEN "released" ELSE gpio
    /\ term' = Restore(old_settings, term)
    /\ pc' = "exiting"
    /\ UNCHANGED << cfg, kpc, audio_buffer, is_recording, stop_program,
                    kbd_stop_program, btn_stop_program, p, stream, mic, fmt,
                    nread, frames, ext, files, old_settings, hist >>
    /\ UNCHANGED sel

\* line 313 and the end of main: the process ends, and with it the daemon
\* keyboard thread (line 300)
ProcessExit ==
    /\ pc = "exiting"
    /\ pc' = "terminated"
    /\ UNCHANGED << cfg, kpc, audio_buffer, is_recording, stop_program,
                    kbd_stop_program, btn_stop_program, p, stream, mic, fmt,
                    nread, frames, ext, files, old_settings, term, gpio, hist >>
    /\ UNCHANGED sel

(* -------------------------- trigger sources --------------------------- *)
\* lines 43-46, with the count of events raised
trigger_recording ==
    /\ hist.nTrig < MaxTriggers
    /\ is_recording' = TRUE
    /\ hist' = [hist EXCEPT !.nTrig = @ + 1,
                            !.nTrigLoop = IF pc \in LoopPcs THEN @ + 1 ELSE @,
                            !.owed = IF stop_program \/ kbd_stop_program
                                        \/ btn_stop_program \/ pc \notin LoopPcs
                                       THEN @
                                     ELSE IF pc \in SavePcs THEN "save"
                                     ELSE "loop"]

\* button_callback that runs the drain of the save itself
button_callbackDrains ==
    /\ gpio = "registered"
    /\ pc # "terminated"
    /\ trigger_recording
    /\ audio_buffer' = <<>>
    /\ UNCHANGED << cfg, pc, kpc, stop_program,
                    kbd_stop_program, btn_stop_program, p, stream, mic, fmt,
                    nread, frames, ext, files, old_settings, term, gpio >>
    /\ UNCHANGED sel

\* lines 218-220: the falling-edge callback, on the GPIO library's own
\* thread (the 300 ms bouncetime of line 212 is not timed here)
button_callback ==
    /\ gpio = "registered"
    /\ pc # "terminated"
    /\ trigger_recording
    /\ UNCHANGED << cfg, pc, kpc, audio_buffer, stop_program,
                    kbd_stop_program, btn_stop_program, p, stream, mic, fmt,
                    nread, frames, ext, files, old_settings, term, gpio >>
    /\ UNCHANGED sel

\* lines 48-52 on the button controller: InputController.stop is inherited
\* by both controllers.  main() itself never calls it; it is the quit
\* operation a second trigger source offers to its caller.
ButtonStop ==
    /\ pc # "terminated"
    /\ ~btn_stop_program
    /\ btn_stop_program' = TRUE
    /\ stop_program' = TRUE
    /\ UNCHANGED << cfg, pc, kpc, audio_buffer, is_recording,
                    kbd_stop_program, p, stream, mic, fmt, nread, frames,
                    ext, files, old_settings, term, gpio, hist >>
    /\ UNCHANGED sel

\* line 259
KeyboardGetAttr ==
    /\ kpc = "tcgetattr"
    /\ pc # "terminated"
    /\ old_settings' = term
    /\ kpc' = "setraw"
    /\ UNCHANGED << cfg, pc, audio_buffer, is_recording, stop_program,
                    kbd_stop_program, btn_stop_program, p, stream, mic, fmt,
                    nread, frames, ext, files, term, gpio, hist >>
    /\ UNCHANGED sel

\* line 261
KeyboardSetRaw ==
    /\ kpc = "setraw"
    /\ pc # "terminated"
    /\ term' = "raw"
    /\ kpc' = "loop_test"
    /\ UNCHANGED << cfg, pc, audio_buffer, is_recording, stop_program,
                    kbd_stop_program, btn_stop_program, p, stream, mic, fmt,
                    nread, frames, ext, files, old_settings, gpio, hist >>
    /\ UNCHANGED sel

\* line 267
KeyboardLoopTest ==
    /\ kpc = "loop_test"
    /\ pc # "terminated"
    /\ kpc' = IF kbd_stop_program THEN "finally" ELSE "poll"
    /\ UNCHANGED << cfg, pc, audio_buffer, is_recording, stop_program,
                    kbd_stop_program, btn_stop_program, p, stream, mic, fmt,
                    nread, frames, ext, files, old_settings, term, gpio, hist >>
    /\ UNCHANGED sel

\* lines 268-278 with no key waiting or a key other than 'r' and 'q'
KeyboardIdle ==
    /\ kpc = "poll"
    /\ pc # "terminated"
    /\ kpc' = "loop_test"
    /\ UNCHANGED << cfg, pc, audio_buffer, is_recording, stop_program,
                    kbd_stop_program, btn_stop_program, p, stream, mic, fmt,
                    nread, frames, ext, files, old_settings, term, gpio, hist >>
    /\ UNCHANGED sel

\* lines 271-273, 278
KeyboardR ==
    /\ kpc = "poll"
    /\ pc # "terminated"
    /\ trigger_recording
    /\ kpc' = "loop_test"
    /\ UNCHANGED << cfg, pc, audio_buffer, stop_program, kbd_stop_program,
                    btn_stop_program, p, stream, mic, fmt, nread, frames,
                    ext, files, old_settings, term, gpio >>
    /\ UNCHANGED sel

\* lines 274-277: stop() (lines 48-52), then break
KeyboardQ ==
    /\ kpc = "poll"
    /\ pc # "terminated"
    /\ kbd_stop_program' = TRUE
    /\ stop_program' = TRUE
    /\ kpc' = "finally"
    /\ UNCHANGED << cfg, pc, audio_buffer, is_recording, btn_stop_program,
                    p, stream, mic, fmt, nread, frames, ext, files,
                    old_settings, term, gpio, hist >>
    /\ UNCHANGED sel

\* lines 279-280
KeyboardFinally ==
    /\ kpc = "finally"
    /\ pc # "terminated"
    /\ term' = Restore(old_settings, term)
    /\ kpc' = "done"
    /\ UNCHANGED << cfg, pc, audio_buffer, is_recording, stop_program,
                    kbd_stop_program, btn_stop_program, p, stream, mic, fmt,
                    nread, frames, ext, files, old_settings, gpio, hist >>
    /\ UNCHANGED sel

(* --------------------------- specification ---------------------------- *)
MainNext ==
    \/ ButtonSetup \/ KeyboardThreadStart \/ PyAudioInit
    \/ FindMic \/ FindMicError \/ OpenStream \/ OpenFallback
    \/ LoopTest \/ ReadPush \/ ReadError \/ CheckTrigger
    \/ DrainBuffer \/ ExtensionRead \/ ExtensionReadError \/ ExtensionDone
    \/ WriteFile \/ WriteError \/ ClearRequest \/ cleanup
    \/ MainFinally \/ ProcessExit

KeyboardNext ==
    \/ KeyboardGetAttr \/ KeyboardSetRaw \/ KeyboardLoopTest
    \/ KeyboardIdle \/ KeyboardR \/ KeyboardQ \/ KeyboardFinally

Next == MainNext \/ KeyboardNext \/ button_callback \/ ButtonStop

Spec == Init /\ [][Next]_vars

\* the main thread keeps running: device reads return, the extension window
\* ends after ten seconds, file operations return
FairSpec == Spec /\ WF_vars(MainNext)

(* ------------- find_best_microphone and __init__ on their own --------- *)
\* line 55: the default arguments of AudioRecorder
DefaultConfig == [RATE |-> 16000, CHUNK |-> 512, BUFFER_SECONDS |-> 30, CHANNELS |-> 1]

ReSpeakerName == << "USB", "ReSpeaker", "Mic", "Array" >>

\* devices a table may list: the ReSpeaker, a plain USB microphone, generic
\* names with one, two and four input channels, an output-only device and
\* an output-only device with a microphone-like name
DeviceUniverse ==
    { Dev(ReSpeakerName, 2, 16000),
      Dev(<<"USB", "Microphone">>, 1, 48000),
      Dev(<<"default">>, 2, 44100),
      Dev(<<"sysdefault">>, 4, 44100),
      Dev(<<"HDMI", "Output">>, 0, 48000),
      Dev(<<"USB", "Mic", "Array">>, 0, 48000) }

DeviceTables == UNION { [1..n -> DeviceUniverse] : n \in 0..MaxDevices }

\* a recorder just constructed, with a PyAudio handle whose device table
\* and default-device answer are sel
SelectorInit ==
    /\ cfg \in Configs \cup {DefaultConfig}
    /\ sel \in [devs : DeviceTables, dflt : DefaultInfos]
    /\ pc = "select"
    /\ kpc = "idle"
    /\ audio_buffer = <<>>
    /\ is_recording = FALSE
    /\ stop_program = FALSE
    /\ kbd_stop_program = FALSE
    /\ btn_stop_program = FALSE
    /\ p = "PyAudio"
    /\ stream = "None"
    /\ mic = NoMic
    /\ fmt = NoFmt
    /\ nread = 0
    /\ frames = <<>>
    /\ ext = 0
    /\ files = <<>>
    /\ old_settings = "None"
    /\ term = "orig"
    /\ gpio = "unset"
    /\ hist = [pushed |-> <<>>, atSave |-> <<>>, readAtSave |-> <<>>,
               opens |-> 0,
               lastOpen |-> NoFmt, streamFmt |-> NoFmt, nTrig |-> 0,
               nTrigLoop |-> 0, owed |-> "no", lastSave |-> "none", stops |-> 0,
               closes |-> 0, terminates |-> 0]

\* lines 68-113 applied to sel
SelectMic ==
    /\ pc = "select"
    /\ mic' = find_best_microphone(sel.devs, sel.dflt, cfg)
    /\ pc' = "selected"
    /\ UNCHANGED << cfg, kpc, audio_buffer, is_recording, stop_program,
                    kbd_stop_program, btn_stop_program, p, stream, sel, fmt,
                    nread, frames, ext, files, old_settings, term, gpio, hist >>

SelectorSpec == SelectorInit /\ [][SelectMic]_vars

TypeOK ==
    /\ cfg \in Configs
    /\ is_recording \in BOOLEAN /\ stop_program \in BOOLEAN
    /\ nread \in 0..MaxReads /\ ext \in 0..MaxExt
    /\ term \in {"orig", "raw"}

(* ------------------------------ properties ---------------------------- *)
LastK(q, k) == SubSeq(q, Len(q) - k + 1, Len(q))

\* positions of the main thread after record_loop has been left
AfterLoopPcs == {"main_finally", "exiting", "terminated"}

\* C1: after N pushes with no save in between into the buffer of capacity
\* C, C < N, the buffer holds exactly the last C pushed chunks in order.
C1_LastCPushed ==
    Len(hist.pushed) > Capacity(cfg)
        => audio_buffer = LastK(hist.pushed, Capacity(cfg))

\* The statement of C1 for the configurations whose capacity is at least 1.
LastCPushedPositive ==
    (Capacity(cfg) >= 1 /\ Len(hist.pushed) > Capacity(cfg))
        => audio_buffer = LastK(hist.pushed, Capacity(cfg))

\* C2: in every reachable state the buffer holds at most Capacity chunks,
\* also in the configurations whose capacity is 0.
C2_LengthAtMostCapacity == Len(audio_buffer) <= Capacity(cfg)

\* C3: after a save has failed (makedirs or the file write raised),
\* is_recording is false and the buffer is empty.
C3_FailedSaveClears ==
    hist.lastSave = "failed" => (~is_recording /\ audio_buffer = <<>>)

\* C4: a failing save does not end the capture loop: the step in which the
\* save fails, quit not requested, stays in the loop and keeps the stream.
C4_FailedSaveContinues ==
    [][(pc = "write" /\ hist'.lastSave = "failed" /\ ~stop_program')
          => (pc' \in LoopPcs /\ hist'.stops = hist.stops
              /\ hist'.closes = hist.closes)]_vars

\* C5: every file holds the buffer contents at the start of its save,
\* oldest first, then the extension chunks in read order, and its header
\* has the channels and rate the stream was opened with (1 channel,
\* 16000 Hz after the fallback open).
C5_FileIsBufferThenExtension ==
    \A i \in 1..Len(files) :
        /\ files[i].frames = files[i].expect
        /\ files[i].channels = files[i].opened.channels
        /\ files[i].rate = files[i].opened.rate
        /\ hist.opens = 2 => (files[i].channels = 1 /\ files[i].rate = 16000)

\* C5 witness: after the fallback open, a save that found one chunk in
\* the buffer and read two extension chunks has written its file.
C5_Witness ==
    /\ Capacity(cfg) = 2
    /\ hist.opens = 2
    /\ Len(files) = 1
    /\ files[1].frames = << 1, 2, 3 >>

\* C6 as stated: once every trigger raised so far (all of them while the
\* capture loop was running) has been consumed, there is exactly one file
\* per trigger event.
C6_ExactlyOncePerTrigger ==
    (pc = "loop_test" /\ ~is_recording /\ hist.nTrig = hist.nTrigLoop)
        => Len(files) = hist.nTrigLoop

\* C6 amended: files are written at most once per trigger event: the
\* number of files never exceeds the number of trigger events raised, and
\* a save is in progress only while recordRequested is set.
C6_AtMostOncePerTrigger ==
    /\ Len(files) <= hist.nTrig
    /\ pc \in {"drain", "extend", "write", "clear"} => is_recording

\* C6 witness: two triggers raised during the loop were merged into one
\* file.
C6_Witness ==
    /\ pc = "loop_test"
    /\ ~is_recording
    /\ hist.nTrigLoop = 2
    /\ Len(files) = 1

\* C7: once the shared quit flag is set (by any controller's stop()), the
\* keyboard loop leaves at its next loop test, and once the keyboard thread
\* has finished the terminal is back in the saved mode.
C7_KeyboardLoopStopsOnQuit ==
    [][(kpc = "loop_test" /\ stop_program /\ kpc' # kpc)
          => (kpc' = "finally")]_vars

\* C8: a capture loop that finds quit requested at its loop test starts no
\* further iteration; the main thread moves only along the control flow of
\* record_loop (nothing interrupts an iteration, a save in progress
\* included); and a quit requested while the loop runs leads to teardown.
C8_QuitObservedAtBoundary ==
    /\ [][(pc = "loop_test" /\ stop_program /\ pc' # pc) => pc' = "cleanup"]_vars
    /\ [][(pc \in LoopPcs /\ pc' # pc) =>
             \/ pc' \in {"cleanup"}
             \/ << pc, pc' >> \in { << "loop_test", "read" >>,
                                   << "read", "check_trigger" >>,
                                   << "check_trigger", "loop_test" >>,
                                   << "check_trigger", "drain" >>,
                                   << "drain", "extend" >>,
                                   << "extend", "write" >>,
                                   << "write", "clear" >>,
                                   << "clear", "loop_test" >> }]_vars
    /\ [][(pc = "write" /\ pc' = "clear") => Len(files') = Len(files) + 1]_vars
    /\ (stop_program /\ pc \in LoopPcs) ~> (hist.stops = 1 /\ hist.terminates = 1)

\* C8 witness: quit was requested, a save ran to its end, and teardown has
\* run.
C8_Witness ==
    /\ stop_program
    /\ nread >= 1
    /\ Len(files) >= 1
    /\ pc \in AfterLoopPcs
    /\ hist.terminates = 1

\* C9: on every exit path with the PyAudio handle created, the stream, if
\* open, was stopped and closed once and the handle terminated once.
C9_TeardownOnEveryExit ==
    (pc \in AfterLoopPcs /\ p # "None")
        => /\ hist.terminates = 1
           /\ stream # "None" => (hist.stops = 1 /\ hist.closes = 1)

\* C10: when the process has terminated the terminal is in its original
\* mode and the GPIO registration is released.
C10_TerminalAndGpioReleased ==
    pc = "terminated" => (term = "orig" /\ gpio # "registered")

\* C11: p.open is called at most twice, first with the negotiated format
\* and, only after that call failed, once with 1 channel at 16000 Hz; when
\* both calls fail the main thread goes to cleanup and on to the end of
\* main with nothing read, pushed or saved.
C11_AtMostTwoOpens ==
    /\ [](hist.opens <= 2)
    /\ [][hist'.opens # hist.opens =>
             \/ /\ hist.opens = 0
                /\ hist'.opens = 1
                /\ hist'.lastOpen = [channels |-> mic.channels,
                                     rate |-> mic.sample_rate]
             \/ /\ hist.opens = 1
                /\ stream = "None"
                /\ hist'.opens = 2
                /\ hist'.lastOpen = [channels |-> 1, rate |-> 16000]]_vars
    /\ []((hist.opens = 2 /\ stream = "None" /\ pc # "fallback") =>
             /\ pc \in {"cleanup"} \cup AfterLoopPcs
             /\ nread = 0
             /\ audio_buffer = <<>>
             /\ files = <<>>)

\* C11 witness: both opens failed and the process has ended.
C11_Witness ==
    /\ hist.opens = 2
    /\ stream = "None"
    /\ pc = "terminated"

\* C12: a step of a trigger source (any step that does not move the main
\* thread) leaves the buffer, the stream, the PyAudio handle, the read
\* position, the frames and the files alone and never puts a flag back
\* to false; the buffer changes, chunks are read and files appear only in
\* steps of the capture loop, and recordRequested goes back to false only
\* at line 160.
C12_TriggerSourcesOnlySetFlags ==
    /\ [][(pc' = pc /\ ext' = ext) =>
             /\ audio_buffer' = audio_buffer
             /\ stream' = stream
             /\ p' = p
             /\ nread' = nread
             /\ frames' = frames
             /\ files' = files
             /\ is_recording => is_recording'
             /\ stop_program => stop_program'
             /\ kbd_stop_program => kbd_stop_program'
             /\ btn_stop_program => btn_stop_program']_vars
    /\ [][(audio_buffer' # audio_buffer \/ nread' # nread \/ files' # files)
             => pc \in {"read", "drain", "extend", "write"}]_vars
    /\ [][(is_recording /\ ~is_recording') => (pc = "clear" /\ pc' = "loop_test")]_vars

\* C12 witness: two triggers and a quit were raised around a save; a file
\* is written and the buffer holds a chunk.
C12_Witness ==
    /\ hist.nTrig = 2
    /\ stop_program
    /\ audio_buffer # <<>>
    /\ Len(files) = 1

\* C13: once stop_program is true it is true in every later state.
C13_QuitNeverReverts == [][stop_program => stop_program']_vars

\* C13 witness: quit was requested, the loop was torn down and the process
\* has ended with the flag still set.
C13_Witness ==
    /\ stop_program
    /\ hist.terminates = 1
    /\ pc = "terminated"

\* C14: the drain of a save hands every held chunk to frames and leaves
\* the buffer empty; the buffer stays empty until save_recording returns;
\* and when exactly one chunk was pushed since an earlier drain, the drain
\* returns exactly that chunk.
C14_DrainEmptiesBuffer ==
    /\ [](pc \in {"extend", "write", "clear"} => audio_buffer = <<>>)
    /\ [][(pc = "drain" /\ pc' = "extend") =>
             (audio_buffer' = <<>> /\ frames' = audio_buffer)]_vars
    /\ [][(pc = "drain" /\ pc' = "extend" /\ Len(files) >= 1
               /\ Len(hist.pushed) = 1) => frames' = hist.pushed]_vars

\* C14 witness: a second save drained the single chunk pushed after the
\* first save.
C14_Witness ==
    /\ Len(files) = 2
    /\ files[1].frames = << 1, 2 >>
    /\ files[2].frames = << 3 >>

\* positions of the input-capable devices of a table
InputCapable(devs) == { i \in 1..Len(devs) : devs[i].maxInputChannels > 0 }

\* C15: with at least one input-capable device in the table,
\* find_best_microphone returns the index of an input-capable device whose
\* (priority, channel count) pair no other input-capable device exceeds;
\* a single "USB ReSpeaker Mic Array" among generic names is the one
\* selected.
C15_SelectsMaximalDevice ==
    (pc = "selected" /\ InputCapable(sel.devs) # {}) =>
        LET devs == sel.devs
            i == mic.index + 1
        IN /\ i \in InputCapable(devs)
           /\ \A j \in InputCapable(devs) :
                 \/ Priority(devs[j].name) < Priority(devs[i].name)
                 \/ /\ Priority(devs[j].name) = Priority(devs[i].name)
                    /\ devs[j].maxInputChannels <= devs[i].maxInputChannels
           /\ \A k \in InputCapable(devs) :
                 (/\ devs[k].name = ReSpeakerName
                  /\ \A j \in InputCapable(devs) \ {k} :
                        Priority(devs[j].name) = 0)
                    => i = k

\* C15 witness: the ReSpeaker, listed after a generic four-channel device
\* and before an output-only "USB Mic Array", was selected.
C15_Witness ==
    /\ pc = "selected"
    /\ sel.devs = << Dev(<<"sysdefault">>, 4, 44100),
                     Dev(ReSpeakerName, 2, 16000),
                     Dev(<<"USB", "Mic", "Array">>, 0, 48000) >>
    /\ mic.index = 1

\* C16 as stated: with no input-capable device and a working default
\* query the result is the default device's index, channels and rate;
\* with the query failing it is a null index with the configured channels
\* and rate.
C16_DefaultDeviceAsIs ==
    (pc = "selected" /\ InputCapable(sel.devs) = {}) =>
        IF sel.dflt.ok
        THEN mic = [index |-> sel.dflt.index,
                    channels |-> sel.dflt.maxInputChannels,
                    sample_rate |-> sel.dflt.defaultSampleRate]
        ELSE mic = [index |-> -1, channels |-> cfg.CHANNELS,
                    sample_rate |-> cfg.RATE]

\* C16 amended: as C16, but the channel count returned for the default
\* device is the smaller of its input channels and the configured
\* channels.
C16_DefaultDeviceClamped ==
    (pc = "selected" /\ InputCapable(sel.devs) = {}) =>
        IF sel.dflt.ok
        THEN /\ mic.index = sel.dflt.index
             /\ mic.sample_rate = sel.dflt.defaultSampleRate
             /\ mic.channels = IF sel.dflt.maxInputChannels < cfg.CHANNELS
                                THEN sel.dflt.maxInputChannels
                                ELSE cfg.CHANNELS
        ELSE mic = [index |-> -1, channels |-> cfg.CHANNELS,
                    sample_rate |-> cfg.RATE]

\* C16 witness: no input-capable device, the default device has more
\* channels than configured, and the configured count was returned.
C16_Witness ==
    /\ pc = "selected"
    /\ InputCapable(sel.devs) = {}
    /\ sel.devs # <<>>
    /\ sel.dflt.ok
    /\ sel.dflt.maxInputChannels > cfg.CHANNELS
    /\ mic.channels = cfg.CHANNELS

\* C17: the capacity of the buffer is
\* ceil(sampleRate / chunkFrames * bufferSeconds).
C17_CapacityIsCeiling ==
    Capacity(cfg) = (cfg.RATE * cfg.BUFFER_SECONDS + cfg.CHUNK - 1) \div cfg.CHUNK

\* C18: a failing GPIO setup is contained in setup(): main goes on to start
\* the keyboard thread and the capture loop; with the button missing, 'r'
\* still sets recordRequested and the loop still saves on it, 'q' still
\* sets the quit flags; and at shutdown button cleanup lets keyboard
\* cleanup and the end of main follow.
C18_GpioFailureContained ==
    /\ [][(pc = "button_setup" /\ pc' # pc) => pc' = "thread_start"]_vars
    /\ [][(gpio = "failed" /\ pc = "thread_start" /\ pc' # pc)
             => (pc' = "pyaudio" /\ kpc' = "tcgetattr")]_vars
    /\ []((gpio = "failed" /\ pc \notin {"button_setup", "thread_start"})
             => kpc # "idle")
    /\ [][(gpio = "failed" /\ hist'.nTrig > hist.nTrig)
             => (kpc = "poll" /\ is_recording')]_vars
    /\ [][(gpio = "failed" /\ pc = "check_trigger" /\ is_recording /\ pc' # pc)
             => pc' = "drain"]_vars
    /\ [][(gpio = "failed" /\ kpc = "poll" /\ kpc' = "finally")
             => (stop_program' /\ kbd_stop_program')]_vars
    /\ [][(gpio = "failed" /\ pc = "main_finally" /\ pc' # pc)
             => /\ pc' = "exiting"
                /\ gpio' = "failed"
                /\ term' = IF old_settings # "None" THEN old_settings ELSE term]_vars

\* C18 witness: GPIO setup failed; an 'r' key led to a file, a 'q' key to
\* the end of the process.
C18_Witness ==
    /\ gpio = "failed"
    /\ hist.nTrig >= 1
    /\ Len(files) = 1
    /\ kbd_stop_program
    /\ pc = "terminated"

\* C19 as stated: every trigger raised while the loop runs and quit is not
\* requested, one raised during a save included, stays pending while the
\* loop runs until a save starts after it, and that save does start unless
\* the loop ends.
C19_EveryTriggerSaved ==
    /\ []((hist.owed # "no" /\ pc \in LoopPcs) => is_recording)
    /\ (hist.owed # "no") ~> (hist.owed = "no" \/ pc \notin LoopPcs)

\* C19 amended: a trigger raised while the loop runs outside a save, quit
\* not requested, stays pending until a save starts after it, and that save
\* starts unless the loop ends first; a trigger raised between the start of
\* a save and the reset of the flag is dropped with that reset.
C19_TriggerOutsideSaveSaved ==
    /\ []((hist.owed = "loop" /\ pc \in LoopPcs) => is_recording)
    /\ (hist.owed = "loop") ~> (hist.owed = "no" \/ pc \notin LoopPcs)
    /\ [][(pc = "clear" /\ pc' # pc) => ~is_recording']_vars
    /\ []((hist.owed = "save" /\ pc \in SavePcs) => is_recording)

\* C19 witness: after the first file, a trigger raised in the loop with quit
\* not requested has started the second save.
C19_Witness ==
    /\ pc = "drain"
    /\ Len(files) = 1
    /\ hist.nTrig = 2
    /\ hist.owed = "no"
    /\ ~stop_program /\ ~kbd_stop_program /\ ~btn_stop_program

\* the chunks of the device's read stream from a to b, in read order
ReadRun(a, b) == [j \in 1..(b - a + 1) |-> a + j - 1]

\* C20: the frames of every file are one contiguous run of the read stream:
\* the min(C, k) most recent of the k chunks read since the previous save
\* ended, then the extension chunks, none missing in between; and no chunk
\* is in two files.
C20_SavedRunIsContiguous ==
    /\ \A i \in 1..Len(files) :
          LET f == files[i]
              k == Len(f.read)
              n == Min(Capacity(cfg), k)
          IN  /\ f.nbuf = n
              /\ SubSeq(f.frames, 1, f.nbuf) = LastK(f.read, n)
              /\ f.frames # <<>>
                    => f.frames = ReadRun(f.frames[1], f.frames[Len(f.frames)])
    /\ \A i, j \in 1..Len(files) :
          i # j => \A a \in 1..Len(files[i].frames) :
                     \A b \in 1..Len(files[j].frames) :
                        files[i].frames[a] # files[j].frames[b]

\* The statement of C20 for the configurations whose capacity is at least 1.
SavedRunIsContiguousPositive == Capacity(cfg) >= 1 => C20_SavedRunIsContiguous

====
